---- MODULE Spec2Model ----
(***************************************************************************)
(* unix_exec_piper: a parent process forks one child per stage of a command *)
(* chain, connects the children with pipes (stdout => stdin), optionally    *)
(* redirects the first stage's stdin and the last stage's stdout to files,  *)
(* and collects the children's exit status with waitpid.                    *)
(*                                                                         *)
(* Processes: 0 is the parent, c in 1..MaxN is the child forked in the      *)
(* c-th loop iteration (stage index c-1 of the Rust code).  Pipe k is the   *)
(* k-th pipe created (created in iteration k).                              *)
(***************************************************************************)
EXTENDS Integers, Sequences, FiniteSets, TLC

\* ------------------------------------------------------------------ bounds
MaxN == 3        \* longest chain
PipeCap == 1     \* bytes a pipe buffers before a writer blocks
FileLen == 2     \* bytes in the input-redirect source file
MaxEntries == 2  \* longest collection of ProcessStates a caller builds itself

\* ------------------------------------------------- constants of the system
WNOHANG == 1          \* libc::WNOHANG
PanicExitCode == 101  \* exit status of a Rust process whose main thread panicked
SIGSEGV == 11
SIGPIPE == 13
EpipeExitCode == 1    \* exit status of cat after a failed write

Children == 1..MaxN
Procs == 0..MaxN
PipeIds == 1..MaxN
NoFd == <<"none", 0>>
Tty == <<"tty", 0>>
SrcFile == <<"src", 0>>
DstFile == <<"dst", 0>>
PR(k) == <<"pr", k>>
PW(k) == <<"pw", k>>
\* the bytes of the source file, all different so that order is observable
SrcData == [b \in 1..FileLen |-> b]

\* "cat" copies stdin to stdout until end-of-stream; "nosuch" is on no PATH
Executables == {"cat", "nosuch"}
\* the bytes the target file holds before the chain runs
StaleData == <<9>>

VARIABLES
    cmds,            \* CmdChain.cmds: sequence of BasicCmd
    background,      \* CmdChain.background
    pidseq,          \* the pids the OS hands out to successive forks
    fopen_mode,      \* the mode string fopen parsed in final_or ("": no fopen yet)
    ppc,             \* parent: position in execute_piped_cmd_chain / the caller
    i,               \* parent: loop variable (1-based)
    pipe_to_current, \* parent: Option<Pipe>, 0 is None, k is Some(pipe k)
    pipe_to_next,    \* parent: Option<Pipe>
    pobj,            \* per address space: the Pipe objects' flags
    std,             \* per process: what fd 0 and fd 1 refer to
    ofd,             \* per process: the other open descriptors
    pid,             \* parent: what the last fork returned
    pids,            \* parent: Vec<pid_t>
    process_states,  \* parent: Vec<ProcessState>
    upd,             \* the running update_process_states call
    ret,             \* value returned by the last update_process_states call
    cpc,             \* per child: position in the child branch / program
    cslot,           \* per child: its copies of pipe_to_current / pipe_to_next
    cpid,            \* per child: pid (0 before its fork)
    cstatus,         \* per child: raw status word once terminated, else -1
    hold,            \* per child: byte read and not yet written (0: none)
    pipebuf,         \* kernel: bytes buffered in each pipe
    srcpos,          \* kernel: bytes of the source file already read
    target,          \* kernel: content of the output-redirect target file
    npipes,          \* number of Pipe::new calls so far
    trace,           \* per child: the setup steps it performed, in order
    call             \* the last operation a caller made on an object, and its outcome

vars == <<cmds, background, pidseq, fopen_mode, ppc, i, pipe_to_current,
          pipe_to_next, pobj, std, ofd, pid, pids, process_states, upd, ret, cpc, cslot, cpid, cstatus,
          hold, pipebuf, srcpos, target, npipes, trace, call>>

chainvars == <<cmds, background, pidseq>>
ioVars == <<hold, pipebuf, srcpos, target, fopen_mode>>
parentLoopVars == <<i, pipe_to_current, pipe_to_next, pid, pids, npipes>>
waitVars == <<process_states, upd, ret>>

\* ------------------------------------------------------------ data.rs
\* BasicCmdBuilder: what the caller sets before build
BasicCmdBuilderNew(exe, inred, outred) ==
    [executable |-> exe, in_red_path |-> inred, out_red_path |-> outred,
     is_first |-> FALSE, is_last |-> FALSE]

\* CmdChainBuilder::build: sets is_first / is_last by position
CmdChainBuild(builders) ==
    [j \in 1..Len(builders) |->
        [builders[j] EXCEPT !.is_first = (j - 1 = 0),
                            !.is_last = ((j - 1) + 1 = Len(builders))]]

length == Len(cmds)

\* ProcessState::new
ProcessStateNew(executable, newpid) ==
    [executable |-> executable, pid |-> newpid, finished |-> FALSE, exit_code |-> -1]

\* ProcessState::finish (the caller never reaches it on a finished entry
\* unless the filter of update_process_states is broken: then it panics)
ProcessStateFinish(st, exit_code) ==
    [st EXCEPT !.finished = TRUE, !.exit_code = exit_code]

\* what a call that panicked hands back
NoValue == -1000
\* the record of one call on an object: the operation, the object's index, whether it
\* panicked, the value it returned, the descriptors it closed, the one it duplicated
\* and the descriptors it called libc::close on
NoCall == [op |-> "none", on |-> 0, panic |-> FALSE, value |-> NoValue, closed |-> {},
           dup |-> NoFd, tried |-> {}]

\* (variant of FinishCall: a finished entry is overwritten)
FinishCallOverwrites(st, exit_code) ==
    [panic |-> FALSE, st |-> ProcessStateFinish(st, exit_code)]

\* ProcessState::finish, lines 287-293, with its panic
FinishCall(st, exit_code) ==
    IF st.finished THEN [panic |-> TRUE, st |-> st]
    ELSE [panic |-> FALSE, st |-> ProcessStateFinish(st, exit_code)]

\* (variant of ExitCodeCall: the field is handed out unguarded)
ExitCodeCallUnguarded(st) == [panic |-> FALSE, value |-> st.exit_code]

\* ProcessState::exit_code, lines 306-309: assert!(self.finished)
ExitCodeCall(st) ==
    IF st.finished THEN [panic |-> FALSE, value |-> st.exit_code]
    ELSE [panic |-> TRUE, value |-> NoValue]

\* ------------------------------------------------------------ status words
ExitStatusWord(code) == (code % 256) * 256
SignalStatusWord(sig) == sig
WIFEXITED(status) == (status % 128) = 0

\* (variant of WEXITSTATUS: the low byte of the status word)
WexitstatusLowByte(status) == status % 256

WEXITSTATUS(status) == (status \div 256) % 256

\* ------------------------------------------------------------ pipe.rs
NoPipe == [exists |-> FALSE, locked |-> FALSE, read_closed |-> FALSE, write_closed |-> FALSE]
\* Pipe::new
PipeNew == [exists |-> TRUE, locked |-> FALSE, read_closed |-> FALSE, write_closed |-> FALSE]

\* descriptors Drop for Pipe closes: every end not marked closed
DropCloses(objs, k) ==
    IF k = 0 \/ ~objs[k].exists THEN {}
    ELSE (IF objs[k].write_closed THEN {} ELSE {PW(k)})
         \cup (IF objs[k].read_closed THEN {} ELSE {PR(k)})

\* Pipe::parent_close_all on the flags
ParentCloseAllFlags(obj) ==
    [obj EXCEPT !.write_closed = TRUE, !.read_closed = TRUE]

\* (variant of ParentCloseAllCloses: the write end is left open)
ParentCloseAllKeepsWrite(obj, k) ==
    IF obj.read_closed THEN {} ELSE {PR(k)}

\* Pipe::parent_close_all: the descriptors it closes
ParentCloseAllCloses(obj, k) ==
    (IF obj.write_closed THEN {} ELSE {PW(k)})
    \cup (IF obj.read_closed THEN {} ELSE {PR(k)})

\* ------------------------------------------------------------ kernel view
Alive(p) == IF p = 0 THEN ppc # "panicked" ELSE cpc[p] \notin {"none", "zombie", "reaped"}
Holds(p, d) == d \in ofd[p] \/ std[p].in = d \/ std[p].out = d
Writers(k) == {p \in Procs : Holds(p, PW(k))}
Readers(k) == {p \in Procs : Holds(p, PR(k))}
ClosedStd == [in |-> NoFd, out |-> NoFd]

\* ------------------------------------------------------------ Init
RedirectPatterns == {"none", "ends", "all"}
InRed(pat, j, n) == pat = "all" \/ (pat = "ends" /\ j = 1)
OutRed(pat, j, n) == pat = "all" \/ (pat = "ends" /\ j = n)
PidSeqs == {[j \in 1..MaxN |-> 10 + j]}
\* "w".as_ptr() hands fopen a string literal that no NUL terminates: fopen reads the
\* bytes that follow it in memory as mode flags; an 'x' among them adds O_EXCL
FopenModes == {"w", "wx"}

\* set_background: either value; the chains with a path on every stage are run in
\* the foreground
BackgroundFlags(pat) == IF pat = "all" THEN {FALSE} ELSE BOOLEAN

\* the chains run: up to MaxN stages, at most one of which names no executable
ChainExecutables(n) ==
    {exes \in [1..n -> Executables] :
        Cardinality({j \in 1..n : exes[j] = "nosuch"}) <= 1}

Init ==
    /\ \E n \in 0..MaxN, pat \in RedirectPatterns :
         \E exes \in ChainExecutables(n) :
            /\ cmds = CmdChainBuild([j \in 1..n |->
                         BasicCmdBuilderNew(exes[j], InRed(pat, j, n), OutRed(pat, j, n))])
            /\ background \in BackgroundFlags(pat)
    /\ pidseq \in PidSeqs
    /\ fopen_mode = ""
    /\ ppc = "loop"
    /\ i = 1
    /\ pipe_to_current = 0
    /\ pipe_to_next = 0
    /\ pobj = [p \in Procs |-> [k \in PipeIds |-> NoPipe]]
    /\ std = [p \in Procs |-> IF p = 0 THEN [in |-> Tty, out |-> Tty] ELSE ClosedStd]
    /\ ofd = [p \in Procs |-> {}]
    /\ pid = 0
    /\ pids = <<>>
    /\ process_states = <<>>
    /\ upd = [wnohang |-> FALSE, idx |-> 1, all_finished |-> TRUE, log |-> <<>>,
              caller |-> "none"]
    /\ ret = [fn |-> "none", val |-> FALSE]
    /\ cpc = [c \in Children |-> "none"]
    /\ cslot = [c \in Children |-> [cur |-> 0, nxt |-> 0]]
    /\ cpid = [c \in Children |-> 0]
    /\ cstatus = [c \in Children |-> -1]
    /\ hold = [c \in Children |-> 0]
    /\ pipebuf = [k \in PipeIds |-> <<>>]
    /\ srcpos = 0
    /\ target = StaleData
    /\ npipes = 0
    /\ trace = [c \in Children |-> <<>>]
    /\ call = NoCall

\* ------------------------------------------------------------ lib.rs, parent
\* (variant of ShiftedCurrent: the prepared pipe is never moved into pipe_to_current)
ShiftedCurrentKept == pipe_to_current

\* lines 44-48: the pipe prepared by the previous iteration becomes the upstream pipe
ShiftedCurrent == IF pipe_to_next # 0 THEN pipe_to_next ELSE pipe_to_current
\* the Pipe the replace() of line 45 drops
ShiftDropped == IF pipe_to_next # 0 THEN pipe_to_current ELSE 0
\* (variant of CreatesPipe: a pipe is created for the last stage too)
CreatesPipeAlways(cmd) == TRUE

\* lines 50-52: a downstream pipe is created unless the stage is last
CreatesPipe(cmd) == ~cmd.is_last

\* lines 41-57 with fork returning a pid > 0: both processes continue
ParentFork ==
    /\ ppc = "loop"
    /\ i <= length
    /\ LET cmd == cmds[i]
           cur == ShiftedCurrent
           new == IF CreatesPipe(cmd) THEN npipes + 1 ELSE 0
           pfds == (ofd[0] \ DropCloses(pobj[0], ShiftDropped))
                      \cup (IF new # 0 THEN {PR(new), PW(new)} ELSE {})
           pob == IF new # 0 THEN [pobj[0] EXCEPT ![new] = PipeNew] ELSE pobj[0]
       IN  /\ new <= MaxN
           /\ pipe_to_current' = cur
           /\ pipe_to_next' = new
           /\ npipes' = IF new # 0 THEN npipes + 1 ELSE npipes
           /\ pid' = pidseq[i]
           /\ cpid' = [cpid EXCEPT ![i] = pidseq[i]]
           /\ ofd' = [ofd EXCEPT ![0] = pfds, ![i] = pfds]
           /\ pobj' = [pobj EXCEPT ![0] = pob, ![i] = pob]
           /\ std' = [std EXCEPT ![i] = std[0]]
           /\ cslot' = [cslot EXCEPT ![i] = [cur |-> cur, nxt |-> new]]
           /\ cpc' = [cpc EXCEPT ![i] = "forked"]
    /\ ppc' = "after_fork"
    /\ UNCHANGED <<chainvars, call, i, pids, waitVars, cstatus, ioVars, trace>>

\* (variant of PanicCloses: the descriptors stay open)
PanicKeeps(fds) == {}

\* the descriptors among fds that the parent's panic closes: unwinding drops its Pipe
\* objects (Drop closes their open ends) and the process ends
PanicCloses(fds) == fds

\* lines 41-57 with fork returning -1: the parent panics; unwinding drops its
\* Pipe objects and the process ends, which closes every descriptor it holds
ParentForkFail ==
    /\ ppc = "loop"
    /\ i <= length
    /\ LET new == IF CreatesPipe(cmds[i]) THEN npipes + 1 ELSE 0
       IN  /\ new <= MaxN
           /\ pipe_to_current' = ShiftedCurrent
           /\ pipe_to_next' = new
           /\ npipes' = IF new # 0 THEN npipes + 1 ELSE npipes
           /\ pobj' = IF new # 0 THEN [pobj EXCEPT ![0][new] = PipeNew] ELSE pobj
    /\ pid' = -1
    /\ ofd' = [ofd EXCEPT ![0] = @ \ PanicCloses(@)]
    /\ std' = [std EXCEPT ![0] = ClosedStd]
    /\ ppc' = "panicked"
    /\ UNCHANGED <<chainvars, call, i, pids, waitVars, cpc, cslot, cpid, cstatus, ioVars, trace>>

\* (variant of RecordPid: the new pid is put in front)
RecordPidInFront(recorded, newpid) == <<newpid>> \o recorded

\* line 61
RecordPid(recorded, newpid) == Append(recorded, newpid)

\* lines 60-67: the parent records the pid and closes the upstream pipe
ParentAfterFork ==
    /\ ppc = "after_fork"
    /\ pid > 0
    /\ pids' = RecordPid(pids, pid)
    /\ IF pipe_to_current # 0
       THEN /\ ofd' = [ofd EXCEPT ![0] = @ \ ParentCloseAllCloses(pobj[0][pipe_to_current],
                                                                 pipe_to_current)]
            /\ pobj' = [pobj EXCEPT ![0][pipe_to_current] = ParentCloseAllFlags(@)]
       ELSE UNCHANGED <<ofd, pobj>>
    /\ i' = i + 1
    /\ ppc' = "loop"
    /\ UNCHANGED <<chainvars, call, pipe_to_current, pipe_to_next, pid, npipes, std, waitVars,
                   cpc, cslot, cpid, cstatus, ioVars, trace>>

\* ------------------------------------------------------------ lib.rs, waiting
\* (variant of WaitFlags: the flag read the way the doc comment of line 113 puts it)
WaitFlagsInverted(wnohang) == IF wnohang THEN 0 ELSE WNOHANG

\* line 117
WaitFlags(wnohang) == IF wnohang THEN WNOHANG ELSE 0

\* (variant of NextUnfinished: no filter, every entry is visited)
NextEntry(states, from) == from

\* lines 122-123: the filter, as the index of the next entry at or after
\* position from that is not finished (Len + 1: none)
RECURSIVE NextUnfinished(_, _)
NextUnfinished(states, from) ==
    IF from > Len(states) THEN from
    ELSE IF ~states[from].finished THEN from
    ELSE NextUnfinished(states, from + 1)

\* the children waitpid(p, ..) can report on: forked, not yet reaped
WaitTarget(p) == {c \in Children : cpid[c] = p /\ cpc[c] \notin {"none", "reaped"}}

\* libc::waitpid(p, &status, flags); block: the call does not return yet
Waitpid(p, flags) ==
    IF WaitTarget(p) = {}
    THEN [res |-> -1, status |-> 0, block |-> FALSE, reaped |-> 0]
    ELSE LET c == CHOOSE x \in WaitTarget(p) : TRUE
         IN  IF cpc[c] = "zombie"
             THEN [res |-> p, status |-> cstatus[c], block |-> FALSE, reaped |-> c]
             ELSE IF flags = WNOHANG
             THEN [res |-> 0, status |-> 0, block |-> FALSE, reaped |-> 0]
             ELSE [res |-> 0, status |-> 0, block |-> TRUE, reaped |-> 0]

\* (variant of UpdateBranch: a failed non-blocking query is taken for "no status yet")
UpdateBranchFailurePending(wait_flags, res) ==
    IF wait_flags = WNOHANG /\ res <= 0 THEN "not_done"
    ELSE IF res = -1 THEN "panic"
    ELSE "finish"

\* (variant of UpdateBranch: "no status yet" is not told apart from a status)
UpdateBranchNoPending(wait_flags, res) ==
    IF res = -1 THEN "panic" ELSE "finish"

\* lines 134-148: what the call does with waitpid's result
UpdateBranch(wait_flags, res) ==
    IF wait_flags = WNOHANG /\ res = 0 THEN "not_done"
    ELSE IF res = -1 THEN "panic"
    ELSE "finish"

\* (variant of UpdateCall: all_finished starts out false)
UpdateCallStartsFalse(states, wnohang, caller) ==
    [wnohang |-> wnohang, idx |-> NextUnfinished(states, 1), all_finished |-> FALSE,
     log |-> <<>>, caller |-> caller]

\* a fresh update_process_states call
UpdateCall(states, wnohang, caller) ==
    [wnohang |-> wnohang, idx |-> NextUnfinished(states, 1), all_finished |-> TRUE,
     log |-> <<>>, caller |-> caller]

\* lines 96-105: one ProcessState per recorded pid, then the first wait pass
ParentCollect ==
    /\ ppc = "loop"
    /\ i > length
    /\ process_states' = [j \in 1..Len(pids) |->
                             ProcessStateNew(cmds[j].executable, pids[j])]
    /\ upd' = UpdateCall(process_states', background, "execute")
    /\ ppc' = "update"
    /\ UNCHANGED <<chainvars, call, parentLoopVars, pobj, std, ofd, ret, cpc, cslot, cpid,
                   cstatus, ioVars, trace>>

\* lines 124-149: the closure applied to the next unfinished entry
UpdateStep ==
    /\ ppc = "update"
    /\ upd.idx <= Len(process_states)
    /\ LET st == process_states[upd.idx]
           flags == WaitFlags(upd.wnohang)
           w == Waitpid(st.pid, flags)
           branch == UpdateBranch(flags, w.res)
           exit_code == WEXITSTATUS(w.status)
           entry == [idx |-> upd.idx, was_finished |-> st.finished, res |-> w.res]
       IN  /\ ~w.block
           /\ cpc' = IF w.reaped # 0 THEN [cpc EXCEPT ![w.reaped] = "reaped"] ELSE cpc
           /\ IF branch = "panic" \/ (branch = "finish" /\ st.finished)
              THEN /\ ppc' = "panicked"
                   /\ ofd' = [ofd EXCEPT ![0] = {}]
                   /\ std' = [std EXCEPT ![0] = ClosedStd]
                   /\ upd' = [upd EXCEPT !.log = Append(@, entry)]
                   /\ UNCHANGED process_states
              ELSE /\ process_states' =
                         IF branch = "finish"
                         THEN [process_states EXCEPT ![upd.idx] = ProcessStateFinish(@, exit_code)]
                         ELSE process_states
                   /\ upd' = [upd EXCEPT
                                !.idx = NextUnfinished(process_states, upd.idx + 1),
                                !.all_finished = IF branch = "not_done" THEN FALSE ELSE @,
                                !.log = Append(@, entry)]
                   /\ UNCHANGED <<ppc, ofd, std>>
    /\ UNCHANGED <<chainvars, call, parentLoopVars, pobj, ret, cslot, cpid, cstatus, ioVars, trace>>

\* line 150 (and lines 107-108 when execute_piped_cmd_chain made the call: its
\* Pipe locals are dropped as it returns)
UpdateReturn ==
    /\ ppc = "update"
    /\ upd.idx > Len(process_states)
    /\ ret' = [fn |-> upd.caller, val |-> upd.all_finished]
    /\ ppc' = "returned"
    /\ ofd' = IF upd.caller = "execute"
              THEN [ofd EXCEPT ![0] = (@ \ DropCloses(pobj[0], pipe_to_current))
                                         \ DropCloses(pobj[0], pipe_to_next)]
              ELSE ofd
    /\ UNCHANGED <<chainvars, call, parentLoopVars, pobj, std, process_states, upd, cpc, cslot,
                   cpid, cstatus, ioVars, trace>>

\* the caller polls the returned states again (bin/example.rs lines 77-85)
CallerPoll ==
    /\ ppc = "returned"
    /\ \E wnohang \in BOOLEAN :
          upd' = UpdateCall(process_states, wnohang, "caller")
    /\ ppc' = "update"
    /\ UNCHANGED <<chainvars, call, parentLoopVars, pobj, std, ofd, process_states, ret, cpc,
                   cslot, cpid, cstatus, ioVars, trace>>

\* ------------------------------------------------------------ pipe.rs, claims
\* (variant of AsReadEnd: the read end is duplicated before the write end is closed)
AsReadEndDupFirst(obj, fds, k) ==
    IF obj.locked
    THEN [panic |-> TRUE, obj |-> obj, fds |-> fds, dup |-> NoFd, calls |-> <<>>]
    ELSE IF PR(k) \notin fds
    THEN [panic |-> TRUE, obj |-> [obj EXCEPT !.locked = TRUE], fds |-> fds, dup |-> NoFd,
          calls |-> <<"dup2_read">>]
    ELSE IF PW(k) \notin fds
    THEN [panic |-> TRUE, obj |-> [obj EXCEPT !.locked = TRUE], fds |-> fds,
          dup |-> PR(k), calls |-> <<"dup2_read", "close_write">>]
    ELSE [panic |-> FALSE, obj |-> [obj EXCEPT !.locked = TRUE, !.write_closed = TRUE],
          fds |-> fds \ {PW(k)}, dup |-> PR(k), calls |-> <<"dup2_read", "close_write">>]

\* Pipe::as_read_end on Pipe k of an address space holding descriptors fds:
\* panics when locked, when close(write end) fails, when dup2 fails. calls: the libc
\* calls it made, in the order of lines 115-116
AsReadEnd(obj, fds, k) ==
    IF obj.locked
    THEN [panic |-> TRUE, obj |-> obj, fds |-> fds, dup |-> NoFd, calls |-> <<>>]
    ELSE IF PW(k) \notin fds
    THEN [panic |-> TRUE, obj |-> [obj EXCEPT !.locked = TRUE], fds |-> fds, dup |-> NoFd,
          calls |-> <<"close_write">>]
    ELSE IF PR(k) \notin fds
    THEN [panic |-> TRUE, obj |-> [obj EXCEPT !.locked = TRUE, !.write_closed = TRUE],
          fds |-> fds \ {PW(k)}, dup |-> NoFd, calls |-> <<"close_write", "dup2_read">>]
    ELSE [panic |-> FALSE, obj |-> [obj EXCEPT !.locked = TRUE, !.write_closed = TRUE],
          fds |-> fds \ {PW(k)}, dup |-> PR(k), calls |-> <<"close_write", "dup2_read">>]

\* (variant of AsWriteEnd: the lock is not looked at)
AsWriteEndUnlocked(obj, fds, k) ==
    IF PR(k) \notin fds
    THEN [panic |-> TRUE, obj |-> [obj EXCEPT !.locked = TRUE], fds |-> fds, dup |-> NoFd,
          calls |-> <<"close_read">>]
    ELSE IF PW(k) \notin fds
    THEN [panic |-> TRUE, obj |-> [obj EXCEPT !.locked = TRUE, !.read_closed = TRUE],
          fds |-> fds \ {PR(k)}, dup |-> NoFd, calls |-> <<"close_read", "dup2_write">>]
    ELSE [panic |-> FALSE, obj |-> [obj EXCEPT !.locked = TRUE, !.read_closed = TRUE],
          fds |-> fds \ {PR(k)}, dup |-> PW(k), calls |-> <<"close_read", "dup2_write">>]

\* Pipe::as_write_end, with its libc calls in the order of lines 126-127
AsWriteEnd(obj, fds, k) ==
    IF obj.locked
    THEN [panic |-> TRUE, obj |-> obj, fds |-> fds, dup |-> NoFd, calls |-> <<>>]
    ELSE IF PR(k) \notin fds
    THEN [panic |-> TRUE, obj |-> [obj EXCEPT !.locked = TRUE], fds |-> fds, dup |-> NoFd,
          calls |-> <<"close_read">>]
    ELSE IF PW(k) \notin fds
    THEN [panic |-> TRUE, obj |-> [obj EXCEPT !.locked = TRUE, !.read_closed = TRUE],
          fds |-> fds \ {PR(k)}, dup |-> NoFd, calls |-> <<"close_read", "dup2_write">>]
    ELSE [panic |-> FALSE, obj |-> [obj EXCEPT !.locked = TRUE, !.read_closed = TRUE],
          fds |-> fds \ {PR(k)}, dup |-> PW(k), calls |-> <<"close_read", "dup2_write">>]

\* ------------------------------------------------------------ lib.rs, child
\* The address space of a child while it runs the child branch: its standard slots,
\* its other descriptors, its copies of the Pipe objects, the steps it has performed,
\* the target file as it leaves it, the mode fopen parsed, and the status word it
\* died with (-1: alive).  A panic unwinds and ends the process with PanicExitCode.
ChildSpace(c) ==
    [std |-> std[c], fds |-> ofd[c], pobj |-> pobj[c], trace |-> <<>>,
     target |-> target, mode |-> fopen_mode, status |-> -1]

Panicked(cs, step) ==
    [cs EXCEPT !.status = ExitStatusWord(PanicExitCode), !.trace = Append(@, step)]

\* initial_ir, lines 154-168: open the path read-only and dup2 it onto stdin; panics
\* when the path cannot be opened
InitialIr(cs, opened) ==
    IF ~opened THEN Panicked(cs, "initial_ir_failed")
    ELSE [cs EXCEPT !.fds = @ \cup {SrcFile}, !.std.in = SrcFile,
                    !.trace = Append(@, "initial_ir")]

\* what fopen(path, mode) does to an existing, writable target file
FopenTruncates(mode) == mode = "w"

\* final_or, lines 171-198. fopen returns NULL when the target cannot be created or
\* opened for writing (created = FALSE). It reads its mode past the end of the literal
\* "w": with "w" it truncates the target; with O_EXCL it returns NULL on the existing
\* target.  The NULL goes unchecked into fileno, which either faults or yields -1
\* (panic)
FinalOr(cs, created, mode, failstatus) ==
    IF ~created
    THEN [cs EXCEPT !.status = failstatus, !.trace = Append(@, "final_or_unopened")]
    ELSE IF FopenTruncates(mode)
    THEN [cs EXCEPT !.fds = @ \cup {DstFile}, !.std.out = DstFile, !.target = <<>>,
                    !.mode = mode, !.trace = Append(@, "final_or")]
    ELSE [cs EXCEPT !.mode = mode, !.status = failstatus,
                    !.trace = Append(@, "final_or_failed")]

\* lines 79-81: pipe_to_current.as_mut().unwrap().as_read_end()
ClaimRead(cs, k) ==
    LET r == AsReadEnd(cs.pobj[k], cs.fds, k)
    IN  IF r.panic
        THEN [cs EXCEPT !.pobj[k] = r.obj, !.fds = r.fds,
                        !.status = ExitStatusWord(PanicExitCode),
                        !.trace = Append(@ \o r.calls, "as_read_end_failed")]
        ELSE [cs EXCEPT !.pobj[k] = r.obj, !.fds = r.fds, !.std.in = r.dup,
                        !.trace = Append(@ \o r.calls, "as_read_end")]

\* lines 82-84: pipe_to_next.as_mut().unwrap().as_write_end()
ClaimWrite(cs, k) ==
    LET r == AsWriteEnd(cs.pobj[k], cs.fds, k)
    IN  IF r.panic
        THEN [cs EXCEPT !.pobj[k] = r.obj, !.fds = r.fds,
                        !.status = ExitStatusWord(PanicExitCode),
                        !.trace = Append(@ \o r.calls, "as_write_end_failed")]
        ELSE [cs EXCEPT !.pobj[k] = r.obj, !.fds = r.fds, !.std.out = r.dup,
                        !.trace = Append(@ \o r.calls, "as_write_end")]

\* execvp finds the executable on the PATH
ExecFound(executable) == executable = "cat"

\* (variant of Exec: after a failed execvp the child is not ended and goes on)
ExecFailureReturns(cs, executable) ==
    [cs EXCEPT !.trace = Append(@, IF ExecFound(executable) THEN "exec" ELSE "exec_failed")]

\* lines 86-92: execvp replaces the image (descriptors stay open), or it returns and
\* the child panics
Exec(cs, executable) ==
    IF ExecFound(executable) THEN [cs EXCEPT !.trace = Append(@, "exec")]
    ELSE Panicked(cs, "exec_failed")

\* (variant of InRedApplies: the path is honoured on any stage)
InRedAppliesAnywhere(cmd) == cmd.in_red_path

\* line 71: cmd.is_first() && cmd.in_red_path().is_some()
InRedApplies(cmd) == cmd.is_first /\ cmd.in_red_path
\* line 75: cmd.is_last() && cmd.out_red_path().is_some()
OutRedApplies(cmd) == cmd.is_last /\ cmd.out_red_path

\* a step of the child branch is skipped once the child has died
Then(cs, cond, next) == IF cs.status # -1 \/ ~cond THEN cs ELSE next

\* the process of child c ends with the given status word: the kernel closes
\* every descriptor it holds
Die(c, status) ==
    /\ cpc' = [cpc EXCEPT ![c] = "zombie"]
    /\ cstatus' = [cstatus EXCEPT ![c] = status]
    /\ std' = [std EXCEPT ![c] = ClosedStd]
    /\ ofd' = [ofd EXCEPT ![c] = {}]

\* lines 68-93: the child of iteration c runs the child branch, in the order of the
\* code.  No other process reads what these steps change before the image is replaced
\* or the child has died: they are one step
Child(c) ==
    /\ cpc[c] = "forked"
    /\ \E opened \in (IF InRedApplies(cmds[c]) THEN BOOLEAN ELSE {TRUE}),
          created \in (IF OutRedApplies(cmds[c]) THEN BOOLEAN ELSE {TRUE}),
          mode \in (IF OutRedApplies(cmds[c]) THEN FopenModes ELSE {"w"}),
          failstatus \in (IF OutRedApplies(cmds[c])
                          THEN {SignalStatusWord(SIGSEGV), ExitStatusWord(PanicExitCode)}
                          ELSE {ExitStatusWord(PanicExitCode)}) :
       LET cmd == cmds[c]
           cur == cslot[c].cur
           nxt == cslot[c].nxt
       IN
       \E cs0 \in {ChildSpace(c)} :
       \E cs1 \in {Then(cs0, InRedApplies(cmd), InitialIr(cs0, opened))} :
       \E cs2 \in {Then(cs1, OutRedApplies(cmd), FinalOr(cs1, created, mode, failstatus))} :
       \E cs3 \in {Then(cs2, cur # 0, ClaimRead(cs2, cur))} :
       \E cs4 \in {Then(cs3, nxt # 0, ClaimWrite(cs3, nxt))} :
       \E cs \in {Then(cs4, TRUE, Exec(cs4, cmd.executable))} :
             /\ pobj' = [pobj EXCEPT ![c] = cs.pobj]
             /\ trace' = [trace EXCEPT ![c] = cs.trace]
             /\ target' = cs.target
             /\ fopen_mode' = cs.mode
             /\ IF cs.status # -1
                THEN Die(c, cs.status)
                ELSE /\ cpc' = [cpc EXCEPT ![c] = "run"]
                     /\ std' = [std EXCEPT ![c] = cs.std]
                     /\ ofd' = [ofd EXCEPT ![c] = cs.fds]
                     /\ UNCHANGED cstatus
    /\ UNCHANGED <<chainvars, call, ppc, parentLoopVars, waitVars, cslot, cpid, hold, pipebuf,
                   srcpos>>

\* ------------------------------------------------------------ the stages' program
\* cat: read(0, ..). A terminal at end of input, a file or a pipe; a read of an
\* empty pipe blocks while a write end is open and returns 0 (end-of-stream) after
CatRead(c) ==
    /\ cpc[c] = "run"
    /\ hold[c] = 0
    /\ LET d == std[c].in
       IN  IF d = SrcFile /\ srcpos < FileLen
           THEN /\ hold' = [hold EXCEPT ![c] = SrcData[srcpos + 1]]
                /\ srcpos' = srcpos + 1
                /\ UNCHANGED <<pipebuf, cpc, cstatus, std, ofd>>
           ELSE IF d[1] = "pr" /\ pipebuf[d[2]] # <<>>
           THEN /\ hold' = [hold EXCEPT ![c] = Head(pipebuf[d[2]])]
                /\ pipebuf' = [pipebuf EXCEPT ![d[2]] = Tail(@)]
                /\ UNCHANGED <<srcpos, cpc, cstatus, std, ofd>>
           ELSE /\ (d[1] = "pr" => Writers(d[2]) = {})
                /\ Die(c, ExitStatusWord(0))
                /\ UNCHANGED <<hold, pipebuf, srcpos>>
    /\ UNCHANGED <<chainvars, call, ppc, parentLoopVars, pobj, waitVars, cslot, cpid, target,
                   fopen_mode, trace>>

\* how a stage ends that writes to a pipe without read end: SIGPIPE terminates it, or,
\* where the parent ignores SIGPIPE (a disposition fork and execvp pass on, and the one
\* the Rust runtime sets up), write fails with EPIPE and cat exits with a failure code
BrokenPipeStatuses == {SignalStatusWord(SIGPIPE), ExitStatusWord(EpipeExitCode)}

\* cat: write(1, ..). A write to a pipe without read end ends the stage; a write to a
\* full pipe blocks
CatWrite(c) ==
    /\ cpc[c] = "run"
    /\ hold[c] # 0
    /\ LET d == std[c].out
       IN  IF d[1] = "pw"
           THEN IF Readers(d[2]) = {}
                THEN /\ \E status \in BrokenPipeStatuses : Die(c, status)
                     /\ hold' = [hold EXCEPT ![c] = 0]
                     /\ UNCHANGED <<pipebuf, target>>
                ELSE /\ Len(pipebuf[d[2]]) < PipeCap
                     /\ pipebuf' = [pipebuf EXCEPT ![d[2]] = Append(@, hold[c])]
                     /\ hold' = [hold EXCEPT ![c] = 0]
                     /\ UNCHANGED <<target, cpc, cstatus, std, ofd>>
           ELSE /\ target' = IF d = DstFile THEN Append(target, hold[c]) ELSE target
                /\ hold' = [hold EXCEPT ![c] = 0]
                /\ UNCHANGED <<pipebuf, cpc, cstatus, std, ofd>>
    /\ UNCHANGED <<chainvars, call, ppc, parentLoopVars, pobj, waitVars, cslot, cpid, srcpos,
                   fopen_mode, trace>>

Next ==
    \/ ParentFork
    \/ ParentForkFail
    \/ ParentAfterFork
    \/ ParentCollect
    \/ UpdateStep
    \/ UpdateReturn
    \/ CallerPoll
    \/ \E c \in Children : Child(c)
    \/ \E c \in Children : CatRead(c)
    \/ \E c \in Children : CatWrite(c)

Spec == Init /\ [][Next]_vars

\* ------------------------------------------------------------ background polling
\* the caller polls without blocking until the call returns true
\* (bin/example.rs lines 79-84)
PollNonBlocking ==
    /\ ppc = "returned"
    /\ upd' = UpdateCall(process_states, TRUE, "caller")
    /\ ppc' = "update"
    /\ UNCHANGED <<chainvars, call, parentLoopVars, pobj, std, ofd, process_states, ret, cpc,
                   cslot, cpid, cstatus, ioVars, trace>>

Parent ==
    \/ ParentFork
    \/ ParentAfterFork
    \/ ParentCollect
    \/ UpdateStep
    \/ UpdateReturn
    \/ PollNonBlocking

Stage(c) ==
    \/ Child(c)
    \/ CatRead(c)
    \/ CatWrite(c)

\* a background chain as bin/example.rs builds it: set_background(true), and
\* redirect paths, if any, only on the first and the last stage, which then name an
\* executable that exists (such a stage can still fail, in its redirect)
BackgroundInit ==
    /\ Init
    /\ background
    /\ \A j \in 1..Len(cmds) :
          /\ cmds[j].in_red_path => (cmds[j].is_first /\ cmds[j].executable = "cat")
          /\ cmds[j].out_red_path => (cmds[j].is_last /\ cmds[j].executable = "cat")

Stages == \E c \in Children : Stage(c)

BackgroundNext == Parent \/ Stages

\* the OS schedules every process that can run.  What is assumed here is less: the
\* parent runs when it can, and some child runs when some child can
BackgroundSpec ==
    /\ BackgroundInit
    /\ [][BackgroundNext]_vars
    /\ WF_vars(Parent)
    /\ WF_vars(Stages)

\* ------------------------------------------------------------ a caller's collection
\* update_process_states, ProcessState::new, finish and exit_code are public: a caller
\* may build a collection of its own and call them in any order.  Entry j is made with
\* ProcessState::new for the pid of child j; the children in owned are children of the
\* calling process and still run, the others are not its children (waitpid: ECHILD)
TerminationStatuses ==
    {ExitStatusWord(0), ExitStatusWord(PanicExitCode), SignalStatusWord(SIGSEGV)}
\* the codes a caller passes to finish
CallerCodes == {0, 1}

CollectionInit ==
    /\ cmds = <<>>
    /\ background = FALSE
    /\ pidseq \in PidSeqs
    /\ fopen_mode = ""
    /\ ppc = "returned"
    /\ i = 1
    /\ pipe_to_current = 0
    /\ pipe_to_next = 0
    /\ pobj = [p \in Procs |-> [k \in PipeIds |-> NoPipe]]
    /\ std = [p \in Procs |-> IF p = 0 THEN [in |-> Tty, out |-> Tty] ELSE ClosedStd]
    /\ ofd = [p \in Procs |-> {}]
    /\ pid = 0
    /\ pids = <<>>
    /\ \E n \in 0..MaxEntries :
          process_states = [j \in 1..n |-> ProcessStateNew("cat", pidseq[j])]
    /\ upd = [wnohang |-> FALSE, idx |-> 1, all_finished |-> TRUE, log |-> <<>>,
              caller |-> "none"]
    /\ ret = [fn |-> "none", val |-> FALSE]
    /\ \E owned \in SUBSET (1..Len(process_states)) :
          cpc = [c \in Children |-> IF c \in owned THEN "run" ELSE "none"]
    /\ cslot = [c \in Children |-> [cur |-> 0, nxt |-> 0]]
    /\ cpid = [c \in Children |-> IF cpc[c] = "run" THEN pidseq[c] ELSE 0]
    /\ cstatus = [c \in Children |-> -1]
    /\ hold = [c \in Children |-> 0]
    /\ pipebuf = [k \in PipeIds |-> <<>>]
    /\ srcpos = 0
    /\ target = StaleData
    /\ npipes = 0
    /\ trace = [c \in Children |-> <<>>]
    /\ call = NoCall

\* a child of the caller terminates, normally or by a signal
StageEnds(c) ==
    /\ cpc[c] = "run"
    /\ \E status \in TerminationStatuses : Die(c, status)
    /\ UNCHANGED <<chainvars, call, ppc, parentLoopVars, pobj, waitVars, cslot, cpid,
                   ioVars, trace>>

\* a panic of the calling process: it ends, the kernel closes its descriptors
CallerPanics ==
    /\ ppc' = "panicked"
    /\ ofd' = [ofd EXCEPT ![0] = {}]
    /\ std' = [std EXCEPT ![0] = ClosedStd]

\* the caller calls finish on entry j
CallerFinish ==
    /\ ppc = "returned"
    /\ \E j \in 1..Len(process_states), exit_code \in CallerCodes :
          LET r == FinishCall(process_states[j], exit_code)
          IN  /\ process_states' = [process_states EXCEPT ![j] = r.st]
              /\ call' = [NoCall EXCEPT !.op = "finish", !.on = j, !.panic = r.panic]
              /\ IF r.panic THEN CallerPanics ELSE UNCHANGED <<ppc, ofd, std>>
    /\ UNCHANGED <<chainvars, parentLoopVars, pobj, upd, ret, cpc, cslot, cpid, cstatus,
                   ioVars, trace>>

\* the caller reads the exit code of entry j
CallerExitCode ==
    /\ ppc = "returned"
    /\ \E j \in 1..Len(process_states) :
          LET r == ExitCodeCall(process_states[j])
          IN  /\ call' = [NoCall EXCEPT !.op = "exit_code", !.on = j, !.panic = r.panic,
                                        !.value = r.value]
              /\ IF r.panic THEN CallerPanics ELSE UNCHANGED <<ppc, ofd, std>>
    /\ UNCHANGED <<chainvars, parentLoopVars, pobj, waitVars, cpc, cslot, cpid, cstatus,
                   ioVars, trace>>

CollectionNext ==
    \/ CallerPoll
    \/ UpdateStep
    \/ UpdateReturn
    \/ CallerFinish
    \/ CallerExitCode
    \/ \E c \in Children : StageEnds(c)

CollectionSpec == CollectionInit /\ [][CollectionNext]_vars

\* ------------------------------------------------------------ Pipe objects
\* One address space that creates Pipes and calls their operations in any order.  A
\* panic ends the address space; it is left as the panic found it.

\* (variant of ParentCloseAllCall: the flags are not updated)
ParentCloseAllCallNoFlags(obj, fds, k) ==
    LET closes == ParentCloseAllCloses(obj, k)
    IN  [panic |-> ~(closes \subseteq fds), obj |-> obj, fds |-> fds \ closes,
         tried |-> closes]

\* Pipe::parent_close_all, lines 150-159, with the panic of close_pipe_end: the write
\* end is closed first, and a close of a descriptor that is not open fails
ParentCloseAllCall(obj, fds, k) ==
    LET closes == ParentCloseAllCloses(obj, k)
    IN  IF closes \subseteq fds
        THEN [panic |-> FALSE, obj |-> ParentCloseAllFlags(obj), fds |-> fds \ closes,
              tried |-> closes]
        ELSE IF PW(k) \in closes /\ PW(k) \in fds
        THEN [panic |-> TRUE, obj |-> [obj EXCEPT !.write_closed = TRUE],
              fds |-> fds \ {PW(k)}, tried |-> closes]
        ELSE [panic |-> TRUE, obj |-> obj, fds |-> fds,
              tried |-> IF PW(k) \in closes THEN {PW(k)} ELSE {PR(k)}]

\* Drop for Pipe, lines 163-176, with the panic of close_pipe_end: the ends not marked
\* closed are closed, the write end first; no flag is written
DropCall(objs, fds, k) ==
    LET closes == DropCloses(objs, k)
    IN  IF closes \subseteq fds
        THEN [panic |-> FALSE, fds |-> fds \ closes, tried |-> closes]
        ELSE IF PW(k) \in closes /\ PW(k) \in fds
        THEN [panic |-> TRUE, fds |-> fds \ {PW(k)}, tried |-> closes]
        ELSE [panic |-> TRUE, fds |-> fds,
              tried |-> IF PW(k) \in closes THEN {PW(k)} ELSE {PR(k)}]

\* the descriptors a claim called libc::close on
ClaimTried(r, k) ==
    {d \in {PW(k), PR(k)} :
        \E n \in 1..Len(r.calls) :
           r.calls[n] = (IF d = PW(k) THEN "close_write" ELSE "close_read")}

PipeInit ==
    /\ cmds = <<>>
    /\ background = FALSE
    /\ pidseq \in PidSeqs
    /\ fopen_mode = ""
    /\ ppc = "pipes"
    /\ i = 1
    /\ pipe_to_current = 0
    /\ pipe_to_next = 0
    /\ pobj = [p \in Procs |-> [k \in PipeIds |-> NoPipe]]
    /\ std = [p \in Procs |-> IF p = 0 THEN [in |-> Tty, out |-> Tty] ELSE ClosedStd]
    /\ ofd = [p \in Procs |-> {}]
    /\ pid = 0
    /\ pids = <<>>
    /\ process_states = <<>>
    /\ upd = [wnohang |-> FALSE, idx |-> 1, all_finished |-> TRUE, log |-> <<>>,
              caller |-> "none"]
    /\ ret = [fn |-> "none", val |-> FALSE]
    /\ cpc = [c \in Children |-> "none"]
    /\ cslot = [c \in Children |-> [cur |-> 0, nxt |-> 0]]
    /\ cpid = [c \in Children |-> 0]
    /\ cstatus = [c \in Children |-> -1]
    /\ hold = [c \in Children |-> 0]
    /\ pipebuf = [k \in PipeIds |-> <<>>]
    /\ srcpos = 0
    /\ target = StaleData
    /\ npipes = 0
    /\ trace = [c \in Children |-> <<>>]
    /\ call = NoCall

pipeIdle == <<chainvars, i, pipe_to_current, pipe_to_next, pid, pids, waitVars, cpc,
              cslot, cpid, cstatus, ioVars, trace>>

\* Pipe::new
PipeNewCall ==
    /\ ppc = "pipes"
    /\ npipes < MaxN
    /\ npipes' = npipes + 1
    /\ pobj' = [pobj EXCEPT ![0][npipes + 1] = PipeNew]
    /\ ofd' = [ofd EXCEPT ![0] = @ \cup {PR(npipes + 1), PW(npipes + 1)}]
    /\ call' = [NoCall EXCEPT !.op = "new", !.on = npipes + 1]
    /\ UNCHANGED <<pipeIdle, ppc, std>>

\* Pipe::as_read_end on Pipe k
AsReadEndCall(k) ==
    /\ ppc = "pipes"
    /\ k <= npipes
    /\ pobj[0][k].exists
    /\ LET r == AsReadEnd(pobj[0][k], ofd[0], k)
       IN  /\ pobj' = [pobj EXCEPT ![0][k] = r.obj]
           /\ ofd' = [ofd EXCEPT ![0] = r.fds]
           /\ std' = IF r.panic THEN std ELSE [std EXCEPT ![0].in = r.dup]
           /\ ppc' = IF r.panic THEN "panicked" ELSE ppc
           /\ call' = [NoCall EXCEPT !.op = "as_read_end", !.on = k, !.panic = r.panic,
                                     !.closed = ofd[0] \ r.fds, !.dup = r.dup,
                                     !.tried = ClaimTried(r, k)]
    /\ UNCHANGED <<pipeIdle, npipes>>

\* Pipe::as_write_end on Pipe k
AsWriteEndCall(k) ==
    /\ ppc = "pipes"
    /\ k <= npipes
    /\ pobj[0][k].exists
    /\ LET r == AsWriteEnd(pobj[0][k], ofd[0], k)
       IN  /\ pobj' = [pobj EXCEPT ![0][k] = r.obj]
           /\ ofd' = [ofd EXCEPT ![0] = r.fds]
           /\ std' = IF r.panic THEN std ELSE [std EXCEPT ![0].out = r.dup]
           /\ ppc' = IF r.panic THEN "panicked" ELSE ppc
           /\ call' = [NoCall EXCEPT !.op = "as_write_end", !.on = k, !.panic = r.panic,
                                     !.closed = ofd[0] \ r.fds, !.dup = r.dup,
                                     !.tried = ClaimTried(r, k)]
    /\ UNCHANGED <<pipeIdle, npipes>>

\* Pipe::parent_close_all on Pipe k
ParentCloseAll(k) ==
    /\ ppc = "pipes"
    /\ k <= npipes
    /\ pobj[0][k].exists
    /\ LET r == ParentCloseAllCall(pobj[0][k], ofd[0], k)
       IN  /\ pobj' = [pobj EXCEPT ![0][k] = r.obj]
           /\ ofd' = [ofd EXCEPT ![0] = r.fds]
           /\ ppc' = IF r.panic THEN "panicked" ELSE ppc
           /\ call' = [NoCall EXCEPT !.op = "parent_close_all", !.on = k,
                                     !.panic = r.panic, !.closed = ofd[0] \ r.fds,
                                     !.tried = r.tried]
    /\ UNCHANGED <<pipeIdle, npipes, std>>

\* Pipe k goes out of scope: Drop for Pipe runs and the object is gone
DropPipe(k) ==
    /\ ppc = "pipes"
    /\ k <= npipes
    /\ pobj[0][k].exists
    /\ LET r == DropCall(pobj[0], ofd[0], k)
       IN  /\ pobj' = [pobj EXCEPT ![0][k] = NoPipe]
           /\ ofd' = [ofd EXCEPT ![0] = r.fds]
           /\ ppc' = IF r.panic THEN "panicked" ELSE ppc
           /\ call' = [NoCall EXCEPT !.op = "drop", !.on = k, !.panic = r.panic,
                                     !.closed = ofd[0] \ r.fds, !.tried = r.tried]
    /\ UNCHANGED <<pipeIdle, npipes, std>>

PipeNext ==
    \/ PipeNewCall
    \/ \E k \in PipeIds : AsReadEndCall(k)
    \/ \E k \in PipeIds : AsWriteEndCall(k)
    \/ \E k \in PipeIds : ParentCloseAll(k)
    \/ \E k \in PipeIds : DropPipe(k)

PipeSpec == PipeInit /\ [][PipeNext]_vars

\* ------------------------------------------------------------ shorthands
AllFinished(states) == \A j \in 1..Len(states) : states[j].finished
LoopDone == (ppc = "loop" /\ i > length) \/ ppc \in {"update", "returned"}
ExecuteReturned == ppc = "returned" /\ ret.fn = "execute"
IsPipeEnd(d) == d[1] \in {"pr", "pw"}
PipeEndsOf(p) == {d \in ofd[p] \cup {std[p].in, std[p].out} : IsPipeEnd(d)}
Claimed(c, step) == \E j \in 1..Len(trace[c]) : trace[c][j] = step

\* ------------------------------------------------------------ claims

\* C1: when execute_piped_cmd_chain returns for a foreground chain of N >= 1 stages,
\* it returns N ProcessStates and every one of them has finished = true.
C1_ForegroundAllFinished ==
    (ExecuteReturned /\ ~background /\ length >= 1)
        => (Len(process_states) = length /\ AllFinished(process_states))

C1_Witness ==
    ExecuteReturned /\ ~background /\ length = MaxN /\ AllFinished(process_states)

\* a foreground chain of cat stages, input redirect on the first stage and output
\* redirect on the last, whose source file could be opened
CatChainWithRedirects ==
    /\ length >= 2
    /\ ~background
    /\ \A j \in 1..length : cmds[j].executable = "cat"
    /\ cmds[1].in_red_path
    /\ cmds[length].out_red_path

\* no process waits for an event that can no longer happen: whenever the parent is
\* inside update_process_states some process can take a step
NoDeadlock == (ppc = "update") => ENABLED Next

\* C2: a foreground chain of N >= 2 cat stages with an input redirect on the first
\* stage and an output redirect on the last returns with every state finished with
\* exit code 0 and with the target file holding exactly the source bytes, in order.
C2_CatChainCopiesSource ==
    (CatChainWithRedirects /\ ExecuteReturned /\ Claimed(1, "initial_ir")
        /\ ~Claimed(length, "final_or_unopened"))
        => /\ target = SrcData
           /\ AllFinished(process_states)
           /\ \A j \in 1..Len(process_states) : process_states[j].exit_code = 0

\* the same statement for the builds in which fopen parses the mode as plain "w"
C2_CopiesWhenModeIsW ==
    (fopen_mode # "wx") => (NoDeadlock /\ C2_CatChainCopiesSource)

C2_CopiesWhenModeIsW_Witness ==
    /\ CatChainWithRedirects /\ ExecuteReturned /\ fopen_mode = "w" /\ length = MaxN
    /\ target = SrcData /\ FileLen > PipeCap

\* C3: after the fork loop has completed the parent holds no descriptor of any pipe;
\* and once the parent has gone past the fork of stage k+1 and stage k+1 has claimed
\* pipe k as its read end, no process other than stage k holds a write end of pipe k,
\* so that pipe k has no writer left as soon as stage k has exited.
C3_ParentReleasesPipes ==
    /\ LoopDone => PipeEndsOf(0) = {}
    /\ \A k \in 1..npipes :
          (i > k + 1 /\ Claimed(k + 1, "as_read_end"))
             => /\ Writers(k) \subseteq {k}
                /\ (~Alive(k) => Writers(k) = {})

C3_Witness ==
    /\ LoopDone /\ length = MaxN /\ npipes = MaxN - 1
    /\ Claimed(2, "as_read_end") /\ Writers(1) = {1}
    /\ Claimed(MaxN, "as_read_end") /\ ~Alive(MaxN - 1) /\ Alive(MaxN)

\* C4: execute_piped_cmd_chain creates exactly N-1 pipes for a chain of N > 1 stages
\* and no pipe for a chain of one stage, whose stage is both first and last.
C4_PipeCount ==
    /\ npipes <= (IF length > 1 THEN length - 1 ELSE 0)
    /\ LoopDone => npipes = (IF length > 1 THEN length - 1 ELSE 0)
    /\ (length = 1 => (cmds[1].is_first /\ cmds[1].is_last))

C4_Witness ==
    LoopDone /\ length = MaxN /\ npipes = MaxN - 1 /\ cpc[MaxN] # "none"

\* C5: pipe k is created in iteration k and connects exactly stage k and stage k+1
\* (1-based): when a stage replaces its image, its standard input is the read end of
\* the pipe of the previous iteration unless it is the first stage, its standard
\* output is the write end of the pipe of its own iteration unless it is the last
\* stage; the first stage's input and the last stage's output are never a pipe end.
C5_Wiring ==
    \A c \in 1..length :
       /\ cpc[c] # "none" =>
             cslot[c] = [cur |-> c - 1, nxt |-> IF c < length THEN c ELSE 0]
       /\ (cpc[c] = "run" /\ Claimed(c, "exec")) =>
             /\ (c > 1 => std[c].in = PR(c - 1))
             /\ (c < length => std[c].out = PW(c))
             /\ ((c > 1 /\ c < length) => std[c].in[2] # std[c].out[2])
       /\ (c = 1 => ~IsPipeEnd(std[c].in))
       /\ (c = length => ~IsPipeEnd(std[c].out))

C5_Witness ==
    /\ length = MaxN
    /\ \A c \in 1..length : cpc[c] = "run"
    /\ std[2].in = PR(1) /\ std[2].out = PW(2)

\* the child behind entry j of the returned states
Terminated(c) == cpc[c] \in {"zombie", "reaped"}
LogOf(j) == {n \in 1..Len(upd.log) : upd.log[n].idx = j}

\* C6 (as claimed): the ProcessStates a background chain returns right after launch
\* are all not finished, whatever the interleaving of children and parent.
C6_BackgroundNoneFinished ==
    (ExecuteReturned /\ background)
        => \A j \in 1..Len(process_states) : ~process_states[j].finished

\* C6 (amended): the single sweep of a background launch queries every entry exactly
\* once without blocking; an entry is returned finished exactly when its child had
\* already terminated at the time it was queried, and not finished otherwise.
C6_BackgroundSweep ==
    (ExecuteReturned /\ background)
        => /\ Len(process_states) = length
           /\ \A j \in 1..length :
                /\ Cardinality(LogOf(j)) = 1
                /\ \A n \in LogOf(j) :
                      process_states[j].finished <=> (upd.log[n].res # 0)
                /\ process_states[j].finished => cpc[j] = "reaped"
                /\ ~Terminated(j) => ~process_states[j].finished

C6_Witness ==
    /\ ExecuteReturned /\ background /\ length = MaxN
    /\ process_states[1].finished /\ ~process_states[2].finished
    /\ Terminated(3) /\ ~process_states[3].finished

\* C8: update_process_states returns true exactly when every entry of the collection
\* is finished after the call, whatever the collection and the flag.
C8_ReturnsAllFinished ==
    (ppc = "returned") => (ret.val <=> AllFinished(process_states))

C8_Witness ==
    /\ ppc = "returned" /\ ret.fn = "caller" /\ ~ret.val /\ upd.wnohang
    /\ Len(process_states) = MaxN
    /\ process_states[1].finished /\ ~process_states[2].finished

\* C9: update_process_states never queries the OS for an entry that is already
\* finished, and a call on a collection whose entries are all finished queries
\* nothing, changes no entry, does not fail and returns true.
C9_FinishedNeverQueried ==
    /\ [](\A n \in 1..Len(upd.log) : ~upd.log[n].was_finished)
    /\ [][(ppc = "update" /\ upd.log = <<>> /\ AllFinished(process_states))
            => /\ process_states' = process_states
               /\ upd'.log = <<>>
               /\ ppc' \in {"update", "returned"}
               /\ (ppc' = "returned" => ret'.val)]_vars

C9_Witness ==
    /\ ppc = "returned" /\ ret.fn = "caller" /\ ret.val /\ upd.log = <<>>
    /\ Len(process_states) = MaxN /\ AllFinished(process_states)

\* C10: execute_piped_cmd_chain returns one ProcessState per stage in stage order:
\* the result has length N, entry j carries the pid the j-th fork returned and the
\* executable of stage j, and the stages are forked in chain order.
C10_OneStatePerStage ==
    /\ \A c \in 1..MaxN : cpc[c] # "none" =>
          (c <= length /\ cpid[c] = pidseq[c] /\ \A d \in 1..(c - 1) : cpc[d] # "none")
    /\ (ppc \in {"update", "returned"}) =>
          /\ Len(process_states) = length
          /\ \A j \in 1..length :
                /\ process_states[j].pid = cpid[j]
                /\ process_states[j].executable = cmds[j].executable

C10_Witness ==
    /\ ExecuteReturned /\ length = MaxN
    /\ cmds[1].executable # cmds[2].executable
    /\ process_states[MaxN].pid = pidseq[MaxN]

\* the parent sits in a waitpid call that has not returned
Blocked ==
    /\ ppc = "update"
    /\ upd.idx <= Len(process_states)
    /\ Waitpid(process_states[upd.idx].pid, WaitFlags(upd.wnohang)).block
AllFinishedReadable ==
    \A j \in 1..Len(process_states) :
        process_states[j].finished /\ process_states[j].exit_code \in 0..255

\* C7: for a background chain, polling the returned states with update_process_states
\* in non-blocking mode eventually returns true; once it has, every state is finished
\* with a readable exit code and stays so; no call of the sequence blocks.
C7_PollingCompletes ==
    /\ <>(ppc = "returned" /\ ret.fn = "caller" /\ ret.val)
    /\ []((ppc = "returned" /\ ret.val) => AllFinishedReadable)
    /\ [][(upd.caller # "none" /\ AllFinishedReadable) => AllFinishedReadable']_vars
    /\ [](~Blocked)

C7_Witness ==
    /\ ppc = "returned" /\ ret.fn = "caller" /\ ret.val /\ background
    /\ length = MaxN /\ Len(upd.log) > 0 /\ AllFinishedReadable

\* C11: the exit code of an entry is never observable while the entry is unfinished:
\* in every reachable state a read of exit_code on an unfinished entry panics and
\* hands back no value; a read that did return a value was made on a finished entry
\* and returned the code that entry was finished with.
C11_ExitCodeGuarded ==
    /\ \A j \in 1..Len(process_states) :
          ~process_states[j].finished
             => /\ ExitCodeCall(process_states[j]).panic
                /\ ExitCodeCall(process_states[j]).value = NoValue
    /\ (call.op = "exit_code")
          => /\ call.panic <=> ~process_states[call.on].finished
             /\ call.panic => (call.value = NoValue /\ ppc = "panicked")
             /\ ~call.panic => call.value = process_states[call.on].exit_code

C11_Witness ==
    /\ call.op = "exit_code" /\ call.on = 2 /\ call.panic /\ ppc = "panicked"
    /\ process_states[1].finished /\ ~process_states[2].finished

\* C12: an entry is created unfinished; once finished it never becomes unfinished
\* again and its pid and exit code never change; finish on an unfinished entry marks
\* it finished with the code given, finish on a finished entry panics and leaves the
\* entry as it was; and no update_process_states call ever reaches finish on an entry
\* that is already finished, whatever the caller did with the entries between calls.
C12_FinishedOnce ==
    /\ \A j \in 1..Len(process_states) : ~process_states[j].finished
    /\ [][/\ Len(process_states') = Len(process_states)
          /\ \A j \in 1..Len(process_states) :
                /\ process_states'[j].pid = process_states[j].pid
                /\ process_states[j].finished
                      => /\ process_states'[j].finished
                         /\ process_states'[j].exit_code = process_states[j].exit_code]_vars
    /\ [][(call' # call /\ call'.op = "finish")
            => IF process_states[call'.on].finished
               THEN call'.panic /\ process_states' = process_states /\ ppc' = "panicked"
               ELSE ~call'.panic /\ process_states'[call'.on].finished]_vars
    /\ [](\A n \in 1..Len(upd.log) : ~upd.log[n].was_finished)

C12_Witness ==
    /\ call.op = "finish" /\ call.on = 1 /\ call.panic /\ ppc = "panicked"
    /\ upd.caller = "caller" /\ LogOf(1) # {}
    /\ process_states[1].finished /\ process_states[1].exit_code = PanicExitCode

\* C13: a Pipe is claimed at most once in an address space: once locked is true, a
\* call of as_read_end or as_write_end on it panics, closes no descriptor, duplicates
\* none and changes no flag; so the standard input and the standard output of the
\* address space are never the two ends of one pipe.
C13_ClaimedOnce ==
    /\ [][(call' # call /\ call'.op \in {"as_read_end", "as_write_end"}
             /\ pobj[0][call'.on].locked)
            => /\ call'.panic
               /\ call'.closed = {}
               /\ call'.dup = NoFd
               /\ pobj' = pobj /\ ofd' = ofd /\ std' = std
               /\ ppc' = "panicked"]_vars
    /\ [](\A p \in Procs, k \in PipeIds : ~(std[p].in = PR(k) /\ std[p].out = PW(k)))

C13_Witness ==
    /\ call.op = "as_write_end" /\ call.panic /\ call.closed = {}
    /\ pobj[0][call.on].locked /\ std[0].in = PR(call.on) /\ std[0].out # PW(call.on)
    /\ PR(call.on) \in ofd[0]

\* C14: parent_close_all closes exactly the ends of the Pipe that are not yet marked
\* closed and does not fail; after it read_closed and write_closed are both true and
\* locked is as before; applied again it closes nothing and changes no flag.
C14_ParentCloseAllIdempotent ==
    /\ [][(call' # call /\ call'.op = "parent_close_all")
            => LET k == call'.on
                   old == pobj[0][k]
                   new == pobj'[0][k]
               IN  /\ ~call'.panic
                   /\ call'.closed = (IF old.write_closed THEN {} ELSE {PW(k)})
                                        \cup (IF old.read_closed THEN {} ELSE {PR(k)})
                   /\ call'.closed \subseteq ofd[0]
                   /\ ofd'[0] = ofd[0] \ call'.closed
                   /\ new.read_closed /\ new.write_closed /\ new.locked = old.locked
                   /\ std' = std
                   /\ LET again == ParentCloseAllCall(new, ofd'[0], k)
                      IN  ~again.panic /\ again.obj = new /\ again.fds = ofd'[0]]_vars
    /\ [][(call.op = "parent_close_all" /\ call'.op = "parent_close_all"
             /\ call'.on = call.on)
            => (call'.closed = {} /\ pobj' = pobj /\ ofd' = ofd)]_vars

C14_Witness ==
    /\ call.op = "parent_close_all" /\ call.closed = {} /\ ~call.panic
    /\ pobj[0][call.on].locked /\ pobj[0][call.on].read_closed
    /\ pobj[0][call.on].write_closed /\ std[0].in = PR(call.on)

Reaped(j) == j <= MaxN /\ cpc[j] = "reaped"

\* C16 (as claimed): an entry finalized by update_process_states has exit code 0 only
\* if its process terminated normally with exit status 0, not when a signal
\* terminated it.
C16_ExitCodeConvention ==
    \A j \in 1..Len(process_states) :
       (Reaped(j) /\ process_states[j].finished /\ process_states[j].exit_code = 0)
          => (WIFEXITED(cstatus[j]) /\ cstatus[j] = ExitStatusWord(0))

\* C16 (amended): an entry finalized by update_process_states carries the exit-status
\* bits of the raw status word: the exit status of a process that terminated normally
\* (so 0 exactly for exit status 0), and 0 for a process that a signal terminated.
C16_ExitCodeIsStatusBits ==
    \A j \in 1..Len(process_states) :
       Reaped(j) =>
          /\ process_states[j].finished
          /\ process_states[j].exit_code \in 0..255
          /\ WIFEXITED(cstatus[j]) => cstatus[j] = ExitStatusWord(process_states[j].exit_code)
          /\ ~WIFEXITED(cstatus[j]) => process_states[j].exit_code = 0

C16_Witness ==
    /\ Len(process_states) = MaxEntries
    /\ Reaped(1) /\ cstatus[1] = SignalStatusWord(SIGSEGV)
    /\ process_states[1].exit_code = 0
    /\ Reaped(2) /\ process_states[2].exit_code = PanicExitCode

\* C17: when a child replaces its image it holds only its standard slots: every pipe
\* descriptor it duplicated onto a standard slot, every descriptor it opened for a
\* redirect and every pipe end it does not use has been closed.
C17_DescriptorHygiene ==
    \A c \in Children :
       (cpc[c] = "run" /\ Claimed(c, "exec")) => ofd[c] = {}

\* the part of it that holds: at that moment the child holds no end of a pipe other
\* than the read end of its upstream pipe and the write end of its downstream pipe
C17_UnusedEndsClosed ==
    \A c \in Children :
       (cpc[c] = "run" /\ Claimed(c, "exec"))
          => PipeEndsOf(c) \subseteq
                (IF cslot[c].cur # 0 THEN {PR(cslot[c].cur)} ELSE {})
                   \cup (IF cslot[c].nxt # 0 THEN {PW(cslot[c].nxt)} ELSE {})

\* the child of stage c performed one of the steps given
Did(c, steps) == \E j \in 1..Len(trace[c]) : trace[c][j] \in steps

\* C18: redirects are honoured by position only: the input redirect is performed by
\* the first stage alone and the output redirect by the last stage alone, whatever
\* paths the other stages carry; a stage whose path applies does perform it, first;
\* and no stage has its standard input set both by an input redirect and by a pipe,
\* nor its standard output both by an output redirect and by a pipe.
C18_RedirectsByPosition ==
    \A c \in 1..length :
       /\ Did(c, {"initial_ir", "initial_ir_failed"}) => (c = 1 /\ cmds[c].in_red_path)
       /\ Did(c, {"final_or", "final_or_failed", "final_or_unopened"})
             => (c = length /\ cmds[c].out_red_path)
       /\ (trace[c] # <<>> /\ c = 1 /\ cmds[c].in_red_path)
             => trace[c][1] \in {"initial_ir", "initial_ir_failed"}
       /\ (Did(c, {"as_read_end", "as_write_end", "exec"}) /\ c = length
              /\ cmds[c].out_red_path)
             => Did(c, {"final_or"})
       /\ ~(Did(c, {"initial_ir"}) /\ Did(c, {"as_read_end", "as_read_end_failed"}))
       /\ ~(Did(c, {"final_or"}) /\ Did(c, {"as_write_end", "as_write_end_failed"}))
       /\ (cpc[c] = "run" /\ Claimed(c, "exec"))
             => /\ std[c].in = (IF c > 1 THEN PR(c - 1)
                                ELSE IF cmds[c].in_red_path THEN SrcFile ELSE Tty)
                /\ std[c].out = (IF c < length THEN PW(c)
                                 ELSE IF cmds[c].out_red_path THEN DstFile ELSE Tty)

C18_Witness ==
    /\ length = MaxN
    /\ \A c \in 1..length :
          cmds[c].in_red_path /\ cmds[c].out_red_path /\ cpc[c] = "run"
    /\ std[1].in = SrcFile /\ std[2].in = PR(1) /\ std[2].out = PW(2)
    /\ std[MaxN].out = DstFile

\* the last query of the running call
LastQuery == upd.log[Len(upd.log)]

\* C19: in one non-blocking update_process_states call every entry that is not
\* finished is queried exactly once, in order, and a finished one is not queried; a
\* query that reports "no status yet" leaves every entry as it was and makes the
\* result false, and the call goes on with the next unfinished entry; an entry whose
\* query reported a status is finalized in that same call, also after a pending one.
C19_OneQueryPerEntry ==
    /\ [](upd.wnohang =>
            /\ \A j \in 1..Len(process_states) : Cardinality(LogOf(j)) <= 1
            /\ \A m, n \in 1..Len(upd.log) : m < n => upd.log[m].idx < upd.log[n].idx)
    /\ []((ppc = "returned" /\ upd.wnohang) =>
            \A j \in 1..Len(process_states) :
               /\ LogOf(j) = {} => process_states[j].finished
               /\ \A n \in LogOf(j) :
                     /\ ~upd.log[n].was_finished
                     /\ upd.log[n].res = 0 => (~process_states[j].finished /\ ~ret.val)
                     /\ upd.log[n].res # 0 => process_states[j].finished)
    /\ [][(upd.wnohang /\ Len(upd'.log) = Len(upd.log) + 1 /\ LastQuery'.res = 0)
            => /\ process_states' = process_states
               /\ ~upd'.all_finished
               /\ ppc' = "update"
               /\ upd'.idx = NextUnfinished(process_states, upd.idx + 1)]_vars

C19_Witness ==
    /\ ppc = "returned" /\ ret.fn = "caller" /\ upd.wnohang /\ ~ret.val
    /\ Len(process_states) = MaxN /\ Len(upd.log) = MaxN
    /\ upd.log[1].res = 0 /\ upd.log[2].res # 0 /\ upd.log[MaxN].res = 0
    /\ ~process_states[1].finished /\ process_states[2].finished

\* C20: a status query that fails (waitpid returns -1) panics in blocking and in
\* non-blocking mode alike: the entry queried is not marked finished, no entry changes,
\* the call returns nothing, and the failure is never recorded as "no status yet".
C20_QueryFailureFatal ==
    /\ [][(Len(upd'.log) = Len(upd.log) + 1 /\ LastQuery'.res = -1)
            => /\ ppc' = "panicked"
               /\ process_states' = process_states
               /\ ~process_states'[LastQuery'.idx].finished
               /\ ret' = ret
               /\ upd'.all_finished = upd.all_finished]_vars
    /\ [][ppc = "panicked" => (ppc' = "panicked" /\ ret' = ret)]_vars
    /\ [](\A n \in 1..Len(upd.log) :
             (upd.log[n].res = -1)
                => /\ ppc = "panicked"
                   /\ n = Len(upd.log)
                   /\ ~process_states[upd.log[n].idx].finished)

C20_Witness ==
    /\ ppc = "panicked" /\ upd.wnohang /\ Len(upd.log) = 2
    /\ upd.log[1].res = 0 /\ upd.log[2].res = -1
    /\ ~process_states[1].finished /\ ~process_states[2].finished

\* C21: a process that did not terminate normally is finalized like any other: the
\* query that reports its status marks its entry finished with bits 8..15 of the raw
\* status word as exit code, does not panic and does not make the call's result
\* false; so a call that saw only terminated processes returns true.
C21_AbnormalFinalized ==
    /\ [][(Len(upd'.log) = Len(upd.log) + 1 /\ LastQuery'.res > 0
             /\ ~WIFEXITED(cstatus[LastQuery'.idx]))
            => LET j == LastQuery'.idx
               IN  /\ ~process_states[j].finished
                   /\ process_states'[j].finished
                   /\ process_states'[j].exit_code = (cstatus[j] \div 256) % 256
                   /\ ppc' = "update"
                   /\ upd'.all_finished = upd.all_finished]_vars
    /\ []((ppc = "returned" /\ ret.fn = "caller"
             /\ \A n \in 1..Len(upd.log) : upd.log[n].res > 0)
            => ret.val)

C21_Witness ==
    /\ ppc = "returned" /\ ret.fn = "caller" /\ ret.val /\ upd.wnohang
    /\ Len(process_states) = MaxEntries /\ Len(upd.log) = MaxEntries
    /\ \A j \in 1..MaxEntries :
          /\ Reaped(j) /\ ~WIFEXITED(cstatus[j])
          /\ process_states[j].finished /\ process_states[j].exit_code = 0

\* the fork of the iteration the parent was in failed
ForkFailed == ppc = "panicked" /\ pid = -1

\* C22: when fork fails the parent panics: no ProcessState is built and nothing is
\* returned; the step creates no child and changes no child, the children forked
\* before stay as they are and go on; the parent holds no pipe descriptor any more,
\* so only children hold ends of the pipes, and as long as one of them lives one of
\* them can take a step.
C22_ForkFailure ==
    /\ [](ForkFailed =>
            /\ process_states = <<>> /\ ret.fn = "none"
            /\ PipeEndsOf(0) = {}
            /\ \A k \in PipeIds : 0 \notin Writers(k) \cup Readers(k)
            /\ \A c \in Children : cpc[c] # "none" <=> c < i
            /\ (\E c \in Children : Alive(c)) => ENABLED Stages)
    /\ [][(pid' = -1 /\ pid # -1)
            => /\ cpc' = cpc /\ cstatus' = cstatus /\ cpid' = cpid
               /\ \A c \in Children : std'[c] = std[c] /\ ofd'[c] = ofd[c]
               /\ ppc' = "panicked"]_vars
    /\ [][ForkFailed => (ForkFailed' /\ process_states' = <<>> /\ ret' = ret)]_vars

C22_Witness ==
    /\ ForkFailed /\ length = MaxN /\ i = MaxN
    /\ \A c \in 1..(MaxN - 1) : cpc[c] = "run"
    /\ cpc[MaxN] = "none" /\ hold[1] # 0

\* the child of stage c failed in a redirect or in execvp
SetupFailed(c) ==
    Did(c, {"initial_ir_failed", "final_or_failed", "final_or_unopened", "exec_failed"})

\* C23: a child whose input redirect, output redirect or execvp failed has terminated
\* in that very step, without replacing its image, and the entry of its stage, once
\* update_process_states has finalized it, carries a non-zero exit code.
C23_SetupFailureNonZero ==
    \A c \in Children :
       SetupFailed(c) =>
          /\ Terminated(c)
          /\ ~Did(c, {"exec"})
          /\ Reaped(c) => (process_states[c].finished /\ process_states[c].exit_code # 0)

\* what holds of C23: the child of a failed setup step is terminated at once and
\* touches nothing of the parent; the parent forks every stage all the same; a failed
\* input redirect or execvp is a panic, finalized with the panic exit code; a failed
\* output redirect is finalized with the exit-status bits of whatever ended the child
C23_FailedChildLeavesParent ==
    /\ [](\A c \in Children :
            SetupFailed(c) =>
               /\ Terminated(c)
               /\ ~Did(c, {"exec"})
               /\ Did(c, {"initial_ir_failed", "exec_failed"})
                     => cstatus[c] = ExitStatusWord(PanicExitCode)
               /\ Reaped(c) => /\ process_states[c].finished
                               /\ process_states[c].exit_code = WEXITSTATUS(cstatus[c]))
    /\ [](LoopDone => \A c \in 1..length : cpc[c] # "none")
    /\ [][\A c \in Children :
             (~SetupFailed(c) /\ SetupFailed(c)')
                => (ppc' = ppc /\ parentLoopVars' = parentLoopVars
                    /\ waitVars' = waitVars /\ std'[0] = std[0] /\ ofd'[0] = ofd[0])]_vars

C23_FailedChildLeavesParent_Witness ==
    /\ ExecuteReturned /\ length = MaxN
    /\ Did(MaxN, {"final_or_unopened"}) /\ cstatus[MaxN] = SignalStatusWord(SIGSEGV)
    /\ Reaped(MaxN) /\ process_states[MaxN].exit_code = 0

\* the place of a trace entry in the child branch, lines 71-92 of lib.rs: input
\* redirect, output redirect, as_read_end with its close and its dup2, as_write_end
\* with its close and its dup2, execvp; however the step ended
StepPosition(step) ==
    CASE step \in {"initial_ir", "initial_ir_failed"} -> 1
      [] step \in {"final_or", "final_or_failed", "final_or_unopened"} -> 2
      [] step = "close_write" -> 3
      [] step = "dup2_read" -> 4
      [] step \in {"as_read_end", "as_read_end_failed"} -> 5
      [] step = "close_read" -> 6
      [] step = "dup2_write" -> 7
      [] step \in {"as_write_end", "as_write_end_failed"} -> 8
      [] step \in {"exec", "exec_failed"} -> 9

\* C24: the steps a child performed are in the order input redirect, output redirect,
\* claim of the upstream pipe as read end, claim of the downstream pipe as write end,
\* execvp; inside a claim the end the child does not use is closed before the end it
\* uses is duplicated; and a child that reached execvp has completed every step that
\* applies to its stage.
C24_SetupOrder ==
    \A c \in Children :
       /\ \A a \in 1..(Len(trace[c]) - 1) :
             StepPosition(trace[c][a]) < StepPosition(trace[c][a + 1])
       /\ Did(c, {"dup2_read"}) => Did(c, {"close_write"})
       /\ Did(c, {"dup2_write"}) => Did(c, {"close_read"})
       /\ Did(c, {"exec", "exec_failed"}) =>
             /\ InRedApplies(cmds[c]) => Did(c, {"initial_ir"})
             /\ OutRedApplies(cmds[c]) => Did(c, {"final_or"})
             /\ c > 1 => Did(c, {"as_read_end"})
             /\ c < length => Did(c, {"as_write_end"})

C24_Witness ==
    /\ length = MaxN /\ MaxN >= 3
    /\ trace[1] = <<"initial_ir", "close_read", "dup2_write", "as_write_end", "exec">>
    /\ trace[2] = <<"close_write", "dup2_read", "as_read_end",
                    "close_read", "dup2_write", "as_write_end", "exec">>
    /\ trace[MaxN] = <<"final_or", "close_write", "dup2_read", "as_read_end", "exec">>

\* Pipe k of the address space was created and has been destroyed
Dropped(k) == k <= npipes /\ ~pobj[0][k].exists

\* the flags of Pipe k say of each end whether its descriptor is closed
FlagsAgree(k) ==
    /\ pobj[0][k].write_closed <=> PW(k) \notin ofd[0]
    /\ pobj[0][k].read_closed <=> PR(k) \notin ofd[0]

\* C25: whatever operations an address space calls on its Pipes, in whatever order:
\* no operation calls close on a descriptor that is closed already (each end is closed
\* at most once), the flags of a live Pipe agree with which of its descriptors are
\* closed, and both descriptors of a destroyed Pipe are closed.
C25_ReleaseIdempotent ==
    /\ [][call'.tried \subseteq ofd[0]]_vars
    /\ [](\A k \in 1..npipes : pobj[0][k].exists => FlagsAgree(k))
    /\ [](\A k \in 1..npipes : Dropped(k) => {PW(k), PR(k)} \cap ofd[0] = {})

\* what holds of C25: flags and descriptors agree, a destroyed Pipe has both ends
\* closed, parent_close_all and destruction close only open descriptors; the one
\* operation that closes a second time is a claim of a Pipe that parent_close_all
\* has closed, and it panics
C25_ReleaseByFlags ==
    /\ [][~(call'.tried \subseteq ofd[0])
            => /\ call'.op \in {"as_read_end", "as_write_end"}
               /\ call'.panic
               /\ pobj[0][call'.on].write_closed /\ pobj[0][call'.on].read_closed]_vars
    /\ [](\A k \in 1..npipes : pobj[0][k].exists => FlagsAgree(k))
    /\ [](\A k \in 1..npipes : Dropped(k) => {PW(k), PR(k)} \cap ofd[0] = {})

C25_ReleaseByFlags_Witness ==
    /\ npipes = MaxN
    /\ \A k \in 1..npipes : Dropped(k)
    /\ call.op = "drop" /\ call.closed = {PR(call.on)}
    /\ std[0].in = PR(call.on)

\* the stages of the chain marked first, and those marked last
FirstStages == {j \in 1..length : cmds[j].is_first}
LastStages == {j \in 1..length : cmds[j].is_last}

\* C26: the chain CmdChainBuilder::build produced has at least one stage, exactly one
\* stage marked first, which is the stage at the front, and exactly one stage marked
\* last, which is the stage at the end (the same stage in a chain of one).
C26_ChainWellFormed ==
    /\ length >= 1
    /\ FirstStages = {1}
    /\ LastStages = {length}

\* what holds of C26: a stage is marked first exactly at the front and last exactly at
\* the end, so a chain that has stages has one of each; build also returns the chain
\* of a builder no stage was added to, in which nothing is marked
C26_FlagsByPosition ==
    /\ \A j \in 1..length :
          /\ cmds[j].is_first <=> j = 1
          /\ cmds[j].is_last <=> j = length
    /\ length >= 1 => (FirstStages = {1} /\ LastStages = {length})
    /\ length = 0 => (FirstStages = {} /\ LastStages = {})

C26_FlagsByPosition_Witness ==
    /\ length = 1 /\ cmds[1].is_first /\ cmds[1].is_last
    /\ ExecuteReturned

\* the processes that hold a descriptor of pipe k
HoldersOf(k) == Writers(k) \cup Readers(k)

\* C27: a descriptor of pipe k is only ever held by the parent, by stage k and by
\* stage k+1; pipe k exists only once stage k-1 has been forked, and when stage k+2
\* has been forked the parent holds no descriptor of pipe k any more.
C27_NoLeak ==
    \A k \in PipeIds :
       /\ \A p \in Children \ {k, k + 1} : ~Holds(p, PW(k)) /\ ~Holds(p, PR(k))
       /\ (k > 1 /\ k <= npipes) => cpc[k - 1] # "none"
       /\ (k + 2 <= MaxN /\ cpc[k + 2] # "none")
             => (~Holds(0, PW(k)) /\ ~Holds(0, PR(k)))

C27_Witness ==
    /\ length = MaxN /\ MaxN >= 3
    /\ \A c \in Children : cpc[c] = "run"
    /\ \A k \in 1..(MaxN - 1) : HoldersOf(k) = {k, k + 1}

\* the children created so far
Created == {c \in Children : cpc[c] # "none"}

\* C28: only the fork step of the parent's loop creates a process, one per stage: a
\* chain of N stages has N children once the loop is done and never more; a child
\* that has not replaced its image has terminated, and its step creates no process
\* and touches neither the loop nor the waiting of the parent; the standard input
\* and output of the parent stay what they were.
C28_OnlyParentForks ==
    /\ [](Created \subseteq 1..length)
    /\ [](LoopDone => (Created = 1..length /\ Len(pids) = length))
    /\ [](\A c \in Children :
            (cpc[c] \notin {"none", "forked"} /\ ~Did(c, {"exec"})) => Terminated(c))
    /\ [][Created' # Created
            => (ppc = "loop" /\ ppc' = "after_fork" /\ Created' = Created \cup {i})]_vars
    /\ [][\A c \in Children :
             trace'[c] # trace[c]
                => (Created' = Created /\ ppc' = ppc /\ parentLoopVars' = parentLoopVars
                    /\ waitVars' = waitVars)]_vars
    /\ [](ppc # "panicked" => std[0] = [in |-> Tty, out |-> Tty])
    /\ [](\A d \in {SrcFile, DstFile} \cup {PR(k) : k \in PipeIds} \cup {PW(k) : k \in PipeIds} :
            std[0].in # d /\ std[0].out # d)

C28_Witness ==
    /\ ExecuteReturned /\ length = MaxN
    /\ Created = 1..MaxN /\ Len(process_states) = MaxN
    /\ Did(1, {"initial_ir"}) /\ Did(MaxN, {"final_or"})
    /\ \E c \in Children : Did(c, {"exec_failed"}) /\ Terminated(c)

====
